---- MODULE Spec2Model ----
(***************************************************************************)
(* A model of fix_srt.py: the subtitle-track parser (load_srt), the noise  *)
(* classifier (is_garbage), the similarity scorer                          *)
(* (normalized_levenshtein_distance, is_similar), the run detector         *)
(* (process_subtitles), the consensus selector (guess_sentence), the       *)
(* action ledger (save_actions, csv) and the reconstructor (apply_actions).*)
(*                                                                         *)
(* A Python str is a sequence of one-character strings; None is the        *)
(* one-element sequence <<"None">>, which is no text of any input.         *)
(***************************************************************************)
EXTENDS Integers, Sequences, FiniteSets, TLC

VARIABLES
    \* process_subtitles
    subtitle_action_list,   \* the input list; its dicts are mutated in place
    delete_list,            \* the compiled deny patterns
    similarity,             \* the cutoff, a rational <<num, den>>
    ret,                    \* the list being returned: references and merging entries
    merging,
    merging_list,
    mergins_start_time,
    prev_subtitle,          \* 0 for {}, else the position of the dict in the input
    proc_i,                 \* the position of the for loop
    proc_pc,
    \* load_srt
    lines,                  \* srt_file.read().splitlines()
    index,                  \* 0-based, as in the code
    subtitles,
    load_pc,
    \* the actions file save_actions writes and apply_actions reads
    csv_file,               \* NoFile, or the rows of the file as text lines
    \* apply_actions
    actions,                \* the rows csv.DictReader yields
    srt_content,
    current_subtitle,
    apply_i,                \* the position of the for loop
    apply_pc,
    \* guess_sentence, called on its own
    guess_sentences,        \* the list guess_sentence is called on
    guess_ratio,            \* the pairwise score, a table over pairs of texts
    guess_result,
    guess_pc,
    \* is_garbage, called on its own
    garbage_text,
    garbage_delete_list,
    garbage_result,
    garbage_pc,
    \* normalized_levenshtein_distance and is_similar, called on their own
    sim_str1,
    sim_str2,
    sim_cutoff,
    sim_distance,           \* the float returned, as <<distance, len_max>>
    sim_similar,
    sim_pc,
    \* main
    args,                   \* the parsed command line
    dont_apply,
    choice,                 \* the answers to the two prompts
    save,
    main_pc,
    \* process_video (extract.py)
    video_frame_count,
    video_fps,
    video_display,
    video_i,                \* the position of the for loop over the frames
    video_idx,
    video_current_text,
    video_start_time,
    video_end_time,
    video_srt_file,         \* the entries written to the output file so far
    video_pc

procVars == <<subtitle_action_list, delete_list, similarity, ret, merging,
              merging_list, mergins_start_time, prev_subtitle, proc_i, proc_pc>>

loadVars == <<lines, index, subtitles, load_pc>>

applyVars == <<actions, srt_content, current_subtitle, apply_i, apply_pc>>

guessVars == <<guess_sentences, guess_ratio, guess_result, guess_pc>>

garbageVars == <<garbage_text, garbage_delete_list, garbage_result, garbage_pc>>

simVars == <<sim_str1, sim_str2, sim_cutoff, sim_distance, sim_similar, sim_pc>>

mainVars == <<args, dont_apply, choice, save, main_pc>>

videoVars == <<video_frame_count, video_fps, video_display, video_i, video_idx, video_current_text,
               video_start_time, video_end_time, video_srt_file, video_pc>>

vars == <<procVars, loadVars, csv_file, applyVars, guessVars, garbageVars,
          simVars, mainVars, videoVars>>

\* what each component leaves alone
notProc == <<loadVars, csv_file, applyVars, guessVars, garbageVars,
            simVars, mainVars, videoVars>>

notLoad == <<procVars, csv_file, applyVars, guessVars, garbageVars,
            simVars, mainVars, videoVars>>

notApply == <<procVars, loadVars, csv_file, guessVars, garbageVars,
            simVars, mainVars, videoVars>>

notGuess == <<procVars, loadVars, csv_file, applyVars, garbageVars,
            simVars, mainVars, videoVars>>

notGarbage == <<procVars, loadVars, csv_file, applyVars, guessVars,
            simVars, mainVars, videoVars>>

notSim == <<procVars, loadVars, csv_file, applyVars, guessVars, garbageVars,
            mainVars, videoVars>>

notVideo == <<procVars, loadVars, csv_file, applyVars, guessVars, garbageVars,
              simVars, mainVars>>

-----------------------------------------------------------------------------
(* Python str and list operations *)

None == <<"None">>

DigitChars == {"0", "1", "2", "3", "4", "5", "6", "7", "8", "9"}

DigitOf == <<"0", "1", "2", "3", "4", "5", "6", "7", "8", "9">>

Whitespace == {" ", "\t", "\n", "\r"}

\* str(n) for n >= 0
RECURSIVE str(_)
str(n) == IF n < 10 THEN <<DigitOf[n + 1]>> ELSE str(n \div 10) \o <<DigitOf[(n % 10) + 1]>>

\* s.isdigit(): non-empty and every character a digit
isdigit(s) == Len(s) > 0 /\ \A k \in 1..Len(s) : s[k] \in DigitChars

RECURSIVE lstrip(_)
lstrip(s) == IF s # <<>> /\ Head(s) \in Whitespace THEN lstrip(Tail(s)) ELSE s

RECURSIVE rstrip(_)
rstrip(s) ==
    IF s # <<>> /\ s[Len(s)] \in Whitespace THEN rstrip(SubSeq(s, 1, Len(s) - 1)) ELSE s

\* s.strip()
strip(s) == rstrip(lstrip(s))

\* pat occurs in s at offset k (0-based)
OccursAt(s, pat, k) ==
    /\ k + Len(pat) <= Len(s)
    /\ \A j \in 1..Len(pat) : s[k + j] = pat[j]

\* pat in s
contains(s, pat) == \E k \in 0..Len(s) : OccursAt(s, pat, k)

\* s.replace(old, ""), old non-empty: left to right, non-overlapping
RECURSIVE remove(_, _)
remove(s, old) ==
    IF s = <<>> THEN <<>>
    ELSE IF OccursAt(s, old, 0) THEN remove(SubSeq(s, Len(old) + 1, Len(s)), old)
    ELSE <<Head(s)>> \o remove(Tail(s), old)

\* s.split(sep), sep non-empty: the list of the parts
RECURSIVE split_from(_, _, _)
split_from(s, sep, part) ==
    IF s = <<>> THEN <<part>>
    ELSE IF OccursAt(s, sep, 0)
         THEN <<part>> \o split_from(SubSeq(s, Len(sep) + 1, Len(s)), sep, <<>>)
    ELSE split_from(Tail(s), sep, Append(part, Head(s)))

split(s, sep) == split_from(s, sep, <<>>)

\* sep.join(parts)
RECURSIVE join(_, _)
join(sep, parts) ==
    IF parts = <<>> THEN <<>>
    ELSE IF Len(parts) = 1 THEN parts[1]
    ELSE parts[1] \o sep \o join(sep, Tail(parts))

Max2(a, b) == IF a >= b THEN a ELSE b

Min2(a, b) == IF a <= b THEN a ELSE b

\* an insertion after the last element
insert_after_last(list, x) == Append(list, x)

\* an insertion in the place of the last element
insert_over_last(list, x) == SubSeq(list, 1, Len(list) - 1) \o <<x>>

\* list.insert(-1, x) on a non-empty list: before the last element
insert_before_last(list, x) ==
    SubSeq(list, 1, Len(list) - 1) \o <<x>> \o <<list[Len(list)]>>

-----------------------------------------------------------------------------
(* The action values, as the code spells them *)

DO_NOTHING == <<"d", "o", " ", "n", "o", "t", "h", "i", "n", "g">>

DELETE == <<"d", "e", "l", "e", "t", "e">>

MERGE == <<"m", "e", "r", "g", "e">>

MERGE_TO == <<"m", "e", "r", "g", "e", " ", "t", "o">>

-----------------------------------------------------------------------------
(* clean_text *)

BackslashN == <<"\\", "n">>

BackslashT == <<"\\", "t">>

clean_text(text) == remove(remove(text, BackslashN), BackslashT)

-----------------------------------------------------------------------------
(* is_garbage.  A compiled pattern is a sequence of characters in which    *)
(* "." matches any character; search looks for a match at any offset.      *)

MatchesAt(d, text, k) ==
    /\ k + Len(d) <= Len(text)
    /\ \A j \in 1..Len(d) : d[j] = "." \/ d[j] = text[k + j]

search(d, text) == \E k \in 0..Len(text) : MatchesAt(d, text, k)

\* the for loop over delete_list, from position k: the first match returns
RECURSIVE deny_loop(_, _, _)
deny_loop(dl, text, k) ==
    IF k > Len(dl) THEN FALSE
    ELSE IF search(dl[k], text) THEN TRUE
    ELSE deny_loop(dl, text, k + 1)

is_garbage_bare_one(text, dl) ==
    IF dl # <<>> /\ deny_loop(dl, text, 1) THEN TRUE
    ELSE IF Len(text) < 3 \/ isdigit(text) THEN TRUE
    ELSE FALSE

is_garbage(text, dl) ==
    IF dl # <<>> /\ deny_loop(dl, text, 1) THEN TRUE
    ELSE IF Len(text) < 3 \/ isdigit(text) \/ strip(text) = <<"1">> THEN TRUE
    ELSE FALSE

-----------------------------------------------------------------------------
(* normalized_levenshtein_distance and is_similar.  The float              *)
(* distance / len_max is kept as the pair <<distance, len_max>>; the       *)
(* cutoff is a rational <<num, den>>, and the comparison cross-multiplies. *)

\* Levenshtein.distance: insertions, deletions and substitutions cost 1
RECURSIVE distance(_, _)
distance(a, b) ==
    IF a = <<>> THEN Len(b)
    ELSE IF b = <<>> THEN Len(a)
    ELSE IF Head(a) = Head(b) THEN distance(Tail(a), Tail(b))
    ELSE 1 + Min2(distance(Tail(a), Tail(b)),
                  Min2(distance(Tail(a), b), distance(a, Tail(b))))

\* a distance normalised by the first string's length
normalized_by_first(str1, str2) ==
    LET len_max == Max2(Len(str1), Len(str2))
    IN  IF len_max = 0 THEN <<0, 1>> ELSE <<distance(str1, str2), Len(str1)>>

normalized_levenshtein_distance(str1, str2) ==
    LET len_max == Max2(Len(str1), Len(str2))
    IN  IF len_max = 0 THEN <<0, 1>> ELSE <<distance(str1, str2), len_max>>

is_similar(prev_text, current_text, cutoff) ==
    LET d == normalized_levenshtein_distance(prev_text, current_text)
    IN  d[1] * cutoff[2] <= cutoff[1] * d[2]

-----------------------------------------------------------------------------
(* guess_sentence.  fuzz.ratio is int(round(100 * 2*M / T)), M the length  *)
(* of the common subsequence the matcher finds and T the two lengths       *)
(* added; fuzzywuzzy gives 0 when either string is empty.                  *)

RECURSIVE lcs(_, _)
lcs(a, b) ==
    IF a = <<>> \/ b = <<>> THEN 0
    ELSE IF Head(a) = Head(b) THEN 1 + lcs(Tail(a), Tail(b))
    ELSE Max2(lcs(Tail(a), b), lcs(a, Tail(b)))

\* round(num / den) to the nearest integer, halves to the even one
round_div(num, den) ==
    LET q == num \div den
        r == num % den
    IN  IF 2 * r > den \/ (2 * r = den /\ q % 2 = 1) THEN q + 1 ELSE q

fuzz_ratio(s1, s2) ==
    IF s1 = <<>> \/ s2 = <<>> THEN 0
    ELSE round_div(200 * lcs(s1, s2), Len(s1) + Len(s2))

\* the table of fuzz.ratio over the texts of a list
fuzz_table(sentences) ==
    [p \in {<<sentences[i], sentences[j]>> : i \in DOMAIN sentences, j \in DOMAIN sentences}
        |-> fuzz_ratio(p[1], p[2])]

\* the inner loop: similarity_sum of sentence i against every j # i, from j
RECURSIVE similarity_sum(_, _, _, _)
similarity_sum(sentences, ratio, i, j) ==
    IF j > Len(sentences) THEN 0
    ELSE (IF i # j THEN ratio[<<sentences[i], sentences[j]>>] ELSE 0)
         + similarity_sum(sentences, ratio, i, j + 1)

\* The outer loop from candidate i.  average_similarity is similarity_sum
\* divided by len(sentences) - 1, the same positive divisor for every
\* candidate, so max_similarity is kept multiplied by it (max_sum).
RECURSIVE guess_loop(_, _, _, _, _)
guess_loop(sentences, ratio, i, max_sum, original_sentence) ==
    IF i > Len(sentences) THEN original_sentence
    ELSE LET sum == similarity_sum(sentences, ratio, i, 1)
         IN  IF sum > max_sum
             THEN guess_loop(sentences, ratio, i + 1, sum, sentences[i])
             ELSE guess_loop(sentences, ratio, i + 1, max_sum, original_sentence)

\* the division by len(sentences) - 1 is reached with a zero divisor
guess_raises(sentences) == Len(sentences) = 1

\* guess_sentence with the pairwise score given as a table
guess_sentence_with(sentences, ratio) == guess_loop(sentences, ratio, 1, 0, None)

guess_sentence(sentences) == guess_sentence_with(sentences, fuzz_table(sentences))

-----------------------------------------------------------------------------
(* process_subtitles.  The dicts of the input list are shared with ret and *)
(* with prev_subtitle: ret holds references ([ref |-> i], the i-th input   *)
(* dict) and the synthesized merging entries ([ref |-> 0, ...]).           *)

Subtitle(start_time, end_time, text, action) ==
    [start_time |-> start_time, end_time |-> end_time, text |-> text, action |-> action]

\* prev_subtitle['action'] = 'merge', at the start of a merging sequence
tag_prev_skipped(list, prev) == list

tag_prev(list, prev) == [list EXCEPT ![prev].action = MERGE]

\* a garbage record that becomes prev_subtitle
prev_after_continue_moved(prev, i) == i

\* `continue` on a garbage record: the rest of the loop body is skipped, the
\* assignment prev_subtitle = subtitle at its end included
prev_after_continue(prev, i) == prev

\* a merging sequence whose first text is left out of merging_list
start_merging_list_skipped(list, prev) == list

\* merging_list.append(prev_subtitle['text']), at the start of a merging sequence
start_merging_list(list, prev) == Append(list, prev.text)

\* merging_entry, built when a merging sequence ends on `subtitle`
merging_entry(start_time, subtitle, guess) ==
    [ref |-> 0, start_time |-> start_time, end_time |-> subtitle.end_time,
     action |-> MERGE_TO, text |-> guess]

\* the list process_subtitles returns, references resolved
Resolve(list, r) ==
    [k \in DOMAIN r |->
        IF r[k].ref > 0 THEN list[r[k].ref]
        ELSE Subtitle(r[k].start_time, r[k].end_time, r[k].text, r[k].action)]

Returned == Resolve(subtitle_action_list, ret)

\* one iteration of the for loop over subtitle_action_list
ProcessSubtitle ==
    /\ proc_pc = "loop"
    /\ proc_i <= Len(subtitle_action_list)
    /\ LET i == proc_i
           text == clean_text(subtitle_action_list[i].text)
           cleaned == [subtitle_action_list EXCEPT ![i].text = text]
           appended == Append(ret, [ref |-> i])
       IN  IF is_garbage(text, delete_list)
           THEN /\ subtitle_action_list' = [cleaned EXCEPT ![i].action = DELETE]
                /\ ret' = appended
                /\ prev_subtitle' = prev_after_continue(prev_subtitle, i)
                /\ UNCHANGED <<merging, merging_list, mergins_start_time>>
           ELSE LET similar == /\ prev_subtitle # 0
                               /\ is_similar(cleaned[prev_subtitle].text, text, similarity)
                    starts == similar /\ ~merging
                    merging1 == merging \/ similar
                    start1 == IF starts THEN cleaned[prev_subtitle].start_time
                              ELSE mergins_start_time
                    tagged == IF starts THEN tag_prev(cleaned, prev_subtitle) ELSE cleaned
                    list1 == IF starts THEN start_merging_list(merging_list, cleaned[prev_subtitle])
                             ELSE merging_list
                    list2 == IF similar THEN Append(list1, text) ELSE list1
                    marked == IF similar THEN [tagged EXCEPT ![i].action = MERGE] ELSE tagged
                    ends == marked[i].action = DO_NOTHING /\ merging1
                IN  /\ subtitle_action_list' = marked
                    /\ mergins_start_time' = start1
                    /\ merging' = IF ends THEN FALSE ELSE merging1
                    /\ merging_list' = IF ends THEN <<>> ELSE list2
                    /\ ret' = IF ends
                              THEN insert_before_last(appended,
                                       merging_entry(start1, marked[i], guess_sentence(list2)))
                              ELSE appended
                    /\ prev_subtitle' = i
    /\ proc_i' = proc_i + 1
    /\ UNCHANGED <<delete_list, similarity, proc_pc>>
    /\ UNCHANGED notProc

\* return ret
ProcessReturn ==
    /\ proc_pc = "loop"
    /\ proc_i > Len(subtitle_action_list)
    /\ proc_pc' = "done"
    /\ UNCHANGED <<subtitle_action_list, delete_list, similarity, ret, merging,
                   merging_list, mergins_start_time, prev_subtitle, proc_i>>
    /\ UNCHANGED notProc

(* The inputs of the run detector: up to MaxSubs records as load_srt makes *)
(* them (action 'do nothing'), the i-th with start time str(2i-1) and end  *)
(* time str(2i), texts from TextPool, a deny list and a cutoff.            *)

MaxSubs == 4

TextPool ==
    { <<"a", "b", "c">>, <<"a", "b", "d">>, <<"x", "y", "z">>,
      <<"\\", "t", "1">>, <<"a", "b", "\\", "n", "c">> }

DenyLists == { <<>>, << <<"y", ".">> >> }

Cutoffs == { <<3, 10>>, <<1, 2>> }

SeqsUpTo(S, n) == UNION { [1..k -> S] : k \in 0..n }

ProcInit ==
    /\ \E texts \in SeqsUpTo(TextPool, MaxSubs) :
          subtitle_action_list =
              [i \in DOMAIN texts |->
                  Subtitle(str(2 * i - 1), str(2 * i), texts[i], DO_NOTHING)]
    /\ delete_list \in DenyLists
    /\ similarity \in Cutoffs
    /\ ret = <<>>
    /\ merging = FALSE
    /\ merging_list = <<>>
    /\ mergins_start_time = <<>>
    /\ prev_subtitle = 0
    /\ proc_i = 1
    /\ proc_pc = "loop"

ProcIdle ==
    /\ subtitle_action_list = <<>>
    /\ delete_list = <<>>
    /\ similarity = <<1, 2>>
    /\ ret = <<>>
    /\ merging = FALSE
    /\ merging_list = <<>>
    /\ mergins_start_time = <<>>
    /\ prev_subtitle = 0
    /\ proc_i = 1
    /\ proc_pc = "idle"

-----------------------------------------------------------------------------
(* get_srt_entry and apply_actions *)

Arrow == <<"-", "-", ">">>

\* f'{index}\n{start_time} --> {end_time}\n{text}\n\n'
get_srt_entry(idx, start_time, end_time, text) ==
    str(idx) \o <<"\n">> \o start_time \o <<" ">> \o Arrow \o <<" ">> \o end_time
        \o <<"\n">> \o text \o <<"\n", "\n">>

\* what the loop carries from row to row
Pending(content, current) == [srt_content |-> content, current_subtitle |-> current]

\* a reconstructor that takes only 'do nothing' and 'merge to' rows
apply_row_known_only(st, row) ==
    IF row.action \in {DO_NOTHING, MERGE_TO}
    THEN Pending(
             IF st.current_subtitle.start_time # <<>>
             THEN Append(st.srt_content,
                      get_srt_entry(Len(st.srt_content) + 1,
                          st.current_subtitle.start_time,
                          st.current_subtitle.end_time,
                          st.current_subtitle.text))
             ELSE st.srt_content,
             [start_time |-> row.start_time, end_time |-> row.end_time,
              text |-> row.text])
    ELSE st

\* the body of the for loop over the rows
apply_row(st, row) ==
    IF row.action = DELETE THEN st
    ELSE IF row.action = MERGE THEN st
    ELSE Pending(
             IF st.current_subtitle.start_time # <<>>
             THEN Append(st.srt_content,
                      get_srt_entry(Len(st.srt_content) + 1,
                          st.current_subtitle.start_time,
                          st.current_subtitle.end_time,
                          st.current_subtitle.text))
             ELSE st.srt_content,
             [start_time |-> row.start_time, end_time |-> row.end_time,
              text |-> row.text])

\* a last subtitle numbered with the count of the entries before it
apply_last_same_index(st) ==
    Append(st.srt_content,
        get_srt_entry(Len(st.srt_content),
            st.current_subtitle.start_time,
            st.current_subtitle.end_time,
            st.current_subtitle.text))

\* "Save the last subtitle": appended whatever current_subtitle holds
apply_last(st) ==
    Append(st.srt_content,
        get_srt_entry(Len(st.srt_content) + 1,
            st.current_subtitle.start_time,
            st.current_subtitle.end_time,
            st.current_subtitle.text))

EmptySubtitle == [start_time |-> <<>>, end_time |-> <<>>, text |-> <<>>]

\* one iteration of the for loop over actions
ApplyRow ==
    /\ apply_pc = "loop"
    /\ apply_i <= Len(actions)
    /\ LET st == apply_row(Pending(srt_content, current_subtitle), actions[apply_i])
       IN  /\ srt_content' = st.srt_content
           /\ current_subtitle' = st.current_subtitle
    /\ apply_i' = apply_i + 1
    /\ UNCHANGED <<actions, apply_pc>>
    /\ UNCHANGED notApply

\* after the loop: the last subtitle is appended and the file is written
ApplyFinish ==
    /\ apply_pc = "loop"
    /\ apply_i > Len(actions)
    /\ srt_content' = apply_last(Pending(srt_content, current_subtitle))
    /\ apply_pc' = "done"
    /\ UNCHANGED <<actions, current_subtitle, apply_i>>
    /\ UNCHANGED notApply

(* The ledgers of the reconstructor: up to MaxRows rows, the i-th with     *)
(* text str(i), end time str(2i), start time str(2i-1) or empty, and any   *)
(* action value, the four known ones, an empty one and an unknown one.     *)

MaxRows == 3

EmptyAction == <<>>

UnknownAction == <<"k", "e", "e", "p">>

RowActions == {DO_NOTHING, DELETE, MERGE, MERGE_TO, EmptyAction, UnknownAction}

Row(start_time, end_time, action, text) ==
    [start_time |-> start_time, end_time |-> end_time, action |-> action, text |-> text]

RowsAt(i) ==
    { Row(st, str(2 * i), a, str(i)) : st \in {<<>>, str(2 * i - 1)}, a \in RowActions }

\* the ledgers of k rows
RECURSIVE LedgersOf(_)
LedgersOf(k) ==
    IF k = 0 THEN {<<>>}
    ELSE {Append(l, r) : l \in LedgersOf(k - 1), r \in RowsAt(k)}

Ledgers == UNION {LedgersOf(k) : k \in 0..MaxRows}

ApplyStart ==
    /\ srt_content = <<>>
    /\ current_subtitle = EmptySubtitle
    /\ apply_i = 1
    /\ apply_pc = "loop"

ApplyInit == actions \in Ledgers /\ ApplyStart

ApplyIdle ==
    /\ actions = <<>>
    /\ srt_content = <<>>
    /\ current_subtitle = EmptySubtitle
    /\ apply_i = 1
    /\ apply_pc = "idle"

-----------------------------------------------------------------------------
(* load_srt *)

\* the inner while loop: the text lines from position idx up to a blank
\* line or the end of the input
RECURSIVE text_lines(_, _)
text_lines(ls, idx) ==
    IF idx < Len(ls) /\ ls[idx + 1] # <<>>
    THEN <<ls[idx + 1]>> \o text_lines(ls, idx + 1)
    ELSE <<>>

\* one iteration of the outer while loop
LoadStep ==
    /\ load_pc = "loop"
    /\ index < Len(lines)
    /\ IF isdigit(lines[index + 1])
       THEN IF index + 1 >= Len(lines)
            THEN \* time_range = lines[index] past the end of the list
                 /\ load_pc' = "IndexError"
                 /\ index' = index + 1
                 /\ UNCHANGED subtitles
            ELSE LET time_range == lines[index + 2]
                     parts == split(time_range, Arrow)
                     text == text_lines(lines, index + 2)
                 IN  IF ~contains(time_range, Arrow)
                     THEN /\ index' = index + 2
                          /\ UNCHANGED <<subtitles, load_pc>>
                     ELSE IF Len(parts) # 2
                     THEN \* start_time, end_time = ... unpacks more than two
                          /\ load_pc' = "ValueError"
                          /\ index' = index + 1
                          /\ UNCHANGED subtitles
                     ELSE /\ subtitles' =
                                 Append(subtitles,
                                     Subtitle(strip(parts[1]), strip(parts[2]),
                                         join(<<" ">>, text), DO_NOTHING))
                          /\ index' = index + 2 + Len(text) + 1
                          /\ UNCHANGED load_pc
       ELSE /\ index' = index + 1
            /\ UNCHANGED <<subtitles, load_pc>>
    /\ UNCHANGED lines
    /\ UNCHANGED notLoad

\* return subtitles
LoadReturn ==
    /\ load_pc = "loop"
    /\ index >= Len(lines)
    /\ load_pc' = "done"
    /\ UNCHANGED <<lines, index, subtitles>>
    /\ UNCHANGED notLoad

LoadStart ==
    /\ index = 0
    /\ subtitles = <<>>
    /\ load_pc = "loop"

LoadIdle ==
    /\ lines = <<>>
    /\ index = 0
    /\ subtitles = <<>>
    /\ load_pc = "idle"

(* The inputs of the parser: up to MaxLines lines, each an index line, a   *)
(* time line, a text line, a blank line or a line with two arrows.         *)

MaxLines == 4

TimeLine(start_time, end_time) == start_time \o <<" ">> \o Arrow \o <<" ">> \o end_time

LinePool ==
    { <<"1">>, TimeLine(<<"1">>, <<"2">>), <<"a", "b">>, <<>>,
      <<"1">> \o Arrow \o <<"2">> \o Arrow \o <<"3">> }

LoadInit == lines \in SeqsUpTo(LinePool, MaxLines) /\ LoadStart

-----------------------------------------------------------------------------
(* save_actions and csv.  The actions file is kept as the list of its rows *)
(* as text lines, without the line terminators; no field here holds a line *)
(* break.                                                                  *)

\* no file of that name: a value no file written by save_actions equals
NoFile == << <<"N", "o", "F", "i", "l", "e">> >>

CsvHeader == << <<"s", "t", "a", "r", "t", "_", "t", "i", "m", "e">>,
               <<"e", "n", "d", "_", "t", "i", "m", "e">>,
               <<"a", "c", "t", "i", "o", "n">>,
               <<"t", "e", "x", "t">> >>

\* csv.writer quotes a field that holds the delimiter, the quote character
\* or a line terminator character
needs_quote(field) == \E k \in DOMAIN field : field[k] \in {",", "\"", "\r", "\n"}

RECURSIVE double_quotes(_)
double_quotes(field) ==
    IF field = <<>> THEN <<>>
    ELSE (IF Head(field) = "\"" THEN <<"\"", "\"">> ELSE <<Head(field)>>)
         \o double_quotes(Tail(field))

\* a field as csv.writer writes it; None is written empty
csv_field(field) ==
    IF field = None THEN <<>>
    ELSE IF needs_quote(field) THEN <<"\"">> \o double_quotes(field) \o <<"\"">>
    ELSE field

\* writerow, for a row of two or more fields
csv_row(row) == join(<<",">>, [k \in DOMAIN row |-> csv_field(row[k])])

save_actions(subs) ==
    <<csv_row(CsvHeader)>> \o
    [k \in DOMAIN subs |->
        csv_row(<<subs[k].start_time, subs[k].end_time, subs[k].action, subs[k].text>>)]

\* csv.reader on one line: the parser's states are "start" (of a field),
\* "field", "quoted" and "quote" (a quote met inside a quoted field)
RECURSIVE csv_parse(_, _, _, _)
csv_parse(line, state, field, fields) ==
    IF line = <<>>
    THEN IF state = "start" /\ fields = <<>> /\ field = <<>> THEN <<>>
         ELSE Append(fields, field)
    ELSE LET c == Head(line)
             rest == Tail(line)
         IN  IF state = "start"
             THEN IF c = "\"" THEN csv_parse(rest, "quoted", <<>>, fields)
                  ELSE IF c = "," THEN csv_parse(rest, "after", <<>>, Append(fields, <<>>))
                  ELSE csv_parse(rest, "field", <<c>>, fields)
             ELSE IF state = "after"
             THEN IF c = "\"" THEN csv_parse(rest, "quoted", <<>>, fields)
                  ELSE IF c = "," THEN csv_parse(rest, "after", <<>>, Append(fields, <<>>))
                  ELSE csv_parse(rest, "field", <<c>>, fields)
             ELSE IF state = "field"
             THEN IF c = "," THEN csv_parse(rest, "after", <<>>, Append(fields, field))
                  ELSE csv_parse(rest, "field", Append(field, c), fields)
             ELSE IF state = "quoted"
             THEN IF c = "\"" THEN csv_parse(rest, "quote", field, fields)
                  ELSE csv_parse(rest, "quoted", Append(field, c), fields)
             ELSE \* "quote"
                  IF c = "\"" THEN csv_parse(rest, "quoted", Append(field, c), fields)
                  ELSE IF c = "," THEN csv_parse(rest, "after", <<>>, Append(fields, field))
                  ELSE csv_parse(rest, "field", Append(field, c), fields)

csv_reader(line) == csv_parse(line, "start", <<>>, <<>>)

\* row[name] of a csv.DictReader row: the value under the last column of
\* that name, None (restval) when the row is too short to reach it
dict_get(fieldnames, row, name) ==
    LET cols == {k \in DOMAIN fieldnames : fieldnames[k] = name}
        col == CHOOSE k \in cols : \A h \in cols : h <= k
    IN  IF col > Len(row) THEN None ELSE row[col]

NotBlank(row) == row # <<>>

\* the rows csv.DictReader yields: the first line names the columns, blank
\* rows are skipped
dict_reader(file) ==
    IF file = <<>> THEN <<>>
    ELSE LET fieldnames == csv_reader(file[1])
             rows == SelectSeq([k \in 1..(Len(file) - 1) |-> csv_reader(file[k + 1])],
                               NotBlank)
         IN  [k \in DOMAIN rows |->
                 Row(dict_get(fieldnames, rows[k], CsvHeader[1]),
                     dict_get(fieldnames, rows[k], CsvHeader[2]),
                     dict_get(fieldnames, rows[k], CsvHeader[3]),
                     dict_get(fieldnames, rows[k], CsvHeader[4]))]

\* save_actions on the parsed list, every action still 'do nothing'
SaveParsed ==
    /\ main_pc = "idle"
    /\ load_pc = "done"
    /\ csv_file = NoFile
    /\ csv_file' = save_actions(subtitles)
    /\ UNCHANGED <<procVars, loadVars, applyVars, guessVars, garbageVars,
                   simVars, mainVars, videoVars>>

\* apply_actions opens the actions file and reads its rows
ApplyRead ==
    /\ main_pc = "idle"
    /\ csv_file # NoFile
    /\ apply_pc = "idle"
    /\ actions' = dict_reader(csv_file)
    /\ apply_pc' = "loop"
    /\ UNCHANGED <<srt_content, current_subtitle, apply_i>>
    /\ UNCHANGED notApply

(* The well-formed tracks of the round trip: up to MaxBlocks blocks, the   *)
(* k-th an index line str(k), a time line str(2k-1) --> str(2k), one or    *)
(* two text lines and a blank line; the text lines hold a comma, a quote,  *)
(* spaces.                                                                 *)

MaxBlocks == 2

TrackTextLines == { <<"a">>, <<"b", ",", " ", "c">>, <<"\"", "d", "\"">> }

BlockTexts == {t \in SeqsUpTo(TrackTextLines, 2) : Len(t) >= 1}

Block(k, text) == <<str(k), TimeLine(str(2 * k - 1), str(2 * k))>> \o text \o << <<>> >>

RECURSIVE TracksOf(_)
TracksOf(n) ==
    IF n = 0 THEN {<<>>}
    ELSE {t \o Block(n, text) : t \in TracksOf(n - 1), text \in BlockTexts}

WellFormedTracks == UNION {TracksOf(n) : n \in 0..MaxBlocks}

-----------------------------------------------------------------------------
(* guess_sentence called on its own, with any symmetric pairwise score *)

MaxSentences == 3

GuessTexts == { <<"a">>, <<"b">>, <<"c">> }

Scores == {0, 40, 100}

SymmetricTables ==
    {t \in [GuessTexts \X GuessTexts -> Scores] :
        \A a, b \in GuessTexts : t[<<a, b>>] = t[<<b, a>>]}

GuessCall ==
    /\ guess_pc = "call"
    /\ IF guess_raises(guess_sentences)
       THEN guess_pc' = "ZeroDivisionError" /\ UNCHANGED guess_result
       ELSE /\ guess_result' = guess_sentence_with(guess_sentences, guess_ratio)
            /\ guess_pc' = "done"
    /\ UNCHANGED <<guess_sentences, guess_ratio>>
    /\ UNCHANGED notGuess

GuessInit ==
    /\ guess_sentences \in SeqsUpTo(GuessTexts, MaxSentences)
    /\ guess_ratio \in SymmetricTables
    /\ guess_result = None
    /\ guess_pc = "call"

GuessIdle ==
    /\ guess_sentences = <<>>
    /\ guess_ratio = <<>>
    /\ guess_result = None
    /\ guess_pc = "idle"

-----------------------------------------------------------------------------
(* is_garbage called on its own *)

MaxTextLen == 3

GarbageAlphabet == {"1", "a", " "}

GarbageDenyLists == { <<>>, << <<"a", "a">> >>, << <<"x">>, <<" ", ".">> >> }

GarbageCall ==
    /\ garbage_pc = "call"
    /\ garbage_result' = is_garbage(garbage_text, garbage_delete_list)
    /\ garbage_pc' = "done"
    /\ UNCHANGED <<garbage_text, garbage_delete_list>>
    /\ UNCHANGED notGarbage

GarbageInit ==
    /\ garbage_text \in SeqsUpTo(GarbageAlphabet, MaxTextLen)
    /\ garbage_delete_list \in GarbageDenyLists
    /\ garbage_result = FALSE
    /\ garbage_pc = "call"

GarbageIdle ==
    /\ garbage_text = <<>>
    /\ garbage_delete_list = <<>>
    /\ garbage_result = FALSE
    /\ garbage_pc = "idle"

-----------------------------------------------------------------------------
(* normalized_levenshtein_distance and is_similar called on their own *)

MaxStrLen == 3

SimAlphabet == {"a", "b"}

SimCutoffs == { <<0, 1>>, <<3, 10>>, <<1, 2>>, <<1, 1>> }

SimilarCall ==
    /\ sim_pc = "call"
    /\ sim_distance' = normalized_levenshtein_distance(sim_str1, sim_str2)
    /\ sim_similar' = is_similar(sim_str1, sim_str2, sim_cutoff)
    /\ sim_pc' = "done"
    /\ UNCHANGED <<sim_str1, sim_str2, sim_cutoff>>
    /\ UNCHANGED notSim

SimInit ==
    /\ sim_str1 \in SeqsUpTo(SimAlphabet, MaxStrLen)
    /\ sim_str2 \in SeqsUpTo(SimAlphabet, MaxStrLen)
    /\ sim_cutoff \in SimCutoffs
    /\ sim_distance = <<0, 1>>
    /\ sim_similar = FALSE
    /\ sim_pc = "call"

SimIdle ==
    /\ sim_str1 = <<>>
    /\ sim_str2 = <<>>
    /\ sim_cutoff = <<1, 2>>
    /\ sim_distance = <<0, 1>>
    /\ sim_similar = FALSE
    /\ sim_pc = "idle"

-----------------------------------------------------------------------------
(* Tracks whose blocks may lack the blank line after them: block k has the *)
(* index k, the times 2k-1 and 2k and one or two text lines; no text line  *)
(* is a number or holds the arrow.                                         *)

BlankAfter == { << <<>> >>, <<>> }

OpenBlock(k, text, blank) == <<str(k), TimeLine(str(2 * k - 1), str(2 * k))>> \o text \o blank

RECURSIVE OpenTracksOf(_)
OpenTracksOf(n) ==
    IF n = 0 THEN {<<>>}
    ELSE {t \o OpenBlock(n, text, blank) :
              t \in OpenTracksOf(n - 1), text \in BlockTexts, blank \in BlankAfter}

OpenTracks == UNION {OpenTracksOf(n) : n \in 0..MaxBlocks}

-----------------------------------------------------------------------------
(* main.  The actions file is csv_file; the output track is written by    *)
(* the last step of apply_actions, ApplyFinish, and by nothing else.       *)

MaxMainBlocks == 3

MainTexts == { <<"a", "b", "c">>, <<"a", "b", "d">>, <<"1">> }

RECURSIVE MainTracksOf(_)
MainTracksOf(n) ==
    IF n = 0 THEN {<<>>}
    ELSE {t \o Block(n, <<text>>) : t \in MainTracksOf(n - 1), text \in MainTexts}

\* the input tracks of main: well-formed ones, and one that ends after an
\* index line
MainTracks == UNION {MainTracksOf(n) : n \in 0..MaxMainBlocks} \cup { << <<"1">> >> }

\* the parsed command line: -a given or not, --confirm, --dont-apply
NoArgs ==
    [apply_actions_csv |-> FALSE, confirm |-> FALSE, dont_apply |-> FALSE,
     delete |-> <<>>, threshold |-> <<1, 2>>]

MainArgs ==
    [apply_actions_csv : BOOLEAN, confirm : BOOLEAN, dont_apply : BOOLEAN,
     delete : {<<>>}, threshold : {<<1, 2>>}]

\* the actions files that -a may name: none, or one of up to one row
ExistingFiles == {NoFile} \cup {save_actions(l) : l \in LedgersOf(0) \cup LedgersOf(1)}

NoAnswer == <<"NoAnswer">>

Answers == { <<"i">>, <<"n">>, <<>> }

\* a user who ignores the answer to "Apply changes?"
dont_apply_after_ignored(dont, answer) == dont

\* if save == 'n': dont_apply = True
dont_apply_after(dont, answer) == IF answer = <<"n">> THEN TRUE ELSE dont

\* what the user may leave in the actions file: the file as it was, or one
\* row's action changed
Edits(file) ==
    LET rows == dict_reader(file)
    IN  {file} \cup
        {save_actions([rows EXCEPT ![k].action = a]) :
            k \in DOMAIN rows, a \in {DELETE, DO_NOTHING}}

\* main up to the first file it reads: with -a the actions file, read by
\* apply_actions, otherwise the input track, read by load_srt
MainBegin ==
    /\ main_pc = "start"
    /\ IF args.apply_actions_csv
       THEN IF csv_file = NoFile
            THEN /\ main_pc' = "FileNotFoundError"
                 /\ UNCHANGED <<actions, apply_pc, lines, load_pc>>
            ELSE /\ actions' = dict_reader(csv_file)
                 /\ apply_pc' = "loop"
                 /\ main_pc' = "apply only"
                 /\ UNCHANGED <<lines, load_pc>>
       ELSE /\ lines' \in MainTracks
            /\ load_pc' = "loop"
            /\ main_pc' = "load"
            /\ UNCHANGED <<actions, apply_pc>>
    /\ UNCHANGED <<args, dont_apply, choice, save>>
    /\ UNCHANGED <<index, subtitles, srt_content, current_subtitle, apply_i, csv_file>>
    /\ UNCHANGED <<procVars, guessVars, garbageVars, simVars, videoVars>>

\* subtitles = process_subtitles(subtitles, delete_list=args.delete, ...)
MainProcess ==
    /\ main_pc = "load"
    /\ load_pc = "done"
    /\ subtitle_action_list' = subtitles
    /\ delete_list' = args.delete
    /\ similarity' = args.threshold
    /\ proc_pc' = "loop"
    /\ main_pc' = "process"
    /\ UNCHANGED <<ret, merging, merging_list, mergins_start_time, prev_subtitle, proc_i>>
    /\ UNCHANGED <<args, dont_apply, choice, save>>
    /\ UNCHANGED <<loadVars, csv_file, applyVars, guessVars, garbageVars, simVars, videoVars>>

\* save_actions(subtitles=subtitles, output_csv=action_csv_file)
MainSave ==
    /\ main_pc = "process"
    /\ proc_pc = "done"
    /\ csv_file' = save_actions(Returned)
    /\ main_pc' = IF args.confirm THEN "decide" ELSE "choice"
    /\ UNCHANGED <<args, dont_apply, choice, save>>
    /\ UNCHANGED <<procVars, loadVars, applyVars, guessVars, garbageVars, simVars, videoVars>>

\* choice = input("Created actionable list [C]confirm, [i]nspect.")
MainChoice ==
    /\ main_pc = "choice"
    /\ choice' \in Answers
    /\ main_pc' = IF choice' = <<"i">> THEN "editor" ELSE "decide"
    /\ UNCHANGED <<args, dont_apply, save>>
    /\ UNCHANGED <<procVars, loadVars, csv_file, applyVars, guessVars, garbageVars,
                   simVars, videoVars>>

\* edit_actions: the editor runs on the actions file and exits, with status
\* 0 or not (check=True raises CalledProcessError)
EditActions ==
    /\ main_pc = "editor"
    /\ csv_file' \in Edits(csv_file)
    /\ main_pc' \in {"save", "CalledProcessError"}
    /\ UNCHANGED <<args, dont_apply, choice, save>>
    /\ UNCHANGED <<procVars, loadVars, applyVars, guessVars, garbageVars, simVars, videoVars>>

\* save = input("Apply changes? [Y]es, [n]o")
MainSavePrompt ==
    /\ main_pc = "save"
    /\ save' \in Answers
    /\ dont_apply' = dont_apply_after(dont_apply, save')
    /\ main_pc' = "decide"
    /\ UNCHANGED <<args, choice>>
    /\ UNCHANGED <<procVars, loadVars, csv_file, applyVars, guessVars, garbageVars,
                   simVars, videoVars>>

\* if not dont_apply: apply_actions(action_csv_file, output_srt_file), up to
\* the reading of the actions file
MainDecide ==
    /\ main_pc = "decide"
    /\ IF ~dont_apply
       THEN /\ actions' = dict_reader(csv_file)
            /\ apply_pc' = "loop"
            /\ main_pc' = "apply"
       ELSE /\ main_pc' = "exit"
            /\ UNCHANGED <<actions, apply_pc>>
    /\ UNCHANGED <<args, dont_apply, choice, save>>
    /\ UNCHANGED <<srt_content, current_subtitle, apply_i>>
    /\ UNCHANGED <<procVars, loadVars, csv_file, guessVars, garbageVars, simVars, videoVars>>

\* apply_actions has returned: sys.exit(0) with -a, the end of main otherwise
MainExit ==
    /\ main_pc \in {"apply", "apply only"}
    /\ apply_pc = "done"
    /\ main_pc' = "exit"
    /\ UNCHANGED <<args, dont_apply, choice, save>>
    /\ UNCHANGED <<procVars, loadVars, csv_file, applyVars, guessVars, garbageVars,
                   simVars, videoVars>>

\* main after parse_args and the reading of its arguments
MainInit ==
    /\ args \in MainArgs
    /\ dont_apply = args.dont_apply
    /\ choice = NoAnswer
    /\ save = NoAnswer
    /\ main_pc = "start"
    /\ csv_file \in (IF args.apply_actions_csv THEN ExistingFiles ELSE {NoFile})

MainIdle ==
    /\ args = NoArgs
    /\ dont_apply = FALSE
    /\ choice = NoAnswer
    /\ save = NoAnswer
    /\ main_pc = "idle"

-----------------------------------------------------------------------------
(* process_video (extract.py).  The video is its frame count, its frame   *)
(* rate and the text the OCR gives for each frame as it is read; the       *)
(* output file is the list of the entries written to it.                   *)

MaxFrames == 3

FrameRates == {0, 1, 2}

\* what extract_text returns for a frame: nothing, or a caption
OcrTexts == { <<>>, <<"a">>, <<"b">> }

\* {n:02d}
pad2(n) == IF n < 10 THEN <<"0">> \o str(n) ELSE str(n)

\* f"{int(hours):02d}:{int(minutes):02d}:{int(seconds):02d},{milliseconds}"
format_time(milliseconds) ==
    LET seconds == milliseconds \div 1000
        minutes == seconds \div 60
        hours == minutes \div 60
    IN  pad2(hours) \o <<":">> \o pad2(minutes % 60) \o <<":">> \o pad2(seconds % 60)
            \o <<",">> \o str(milliseconds % 1000)

\* repr of a text without quotes or backslashes: in single quotes, a line
\* end written as backslash n
RECURSIVE repr_chars(_)
repr_chars(text) ==
    IF text = <<>> THEN <<>>
    ELSE (IF Head(text) = "\n" THEN <<"\\", "n">> ELSE <<Head(text)>>) \o repr_chars(Tail(text))

repr(text) == <<"'">> \o repr_chars(text) \o <<"'">>

\* get_srt_entry of extract.py: the text is written as its repr
video_get_srt_entry(idx, start_time, end_time, text) ==
    str(idx) \o <<"\n">> \o start_time \o <<" ">> \o Arrow \o <<" ">> \o end_time
        \o <<"\n">> \o repr(text) \o <<"\n", "\n">>

\* int((i / fps) * 1000), exact for the frame rates 1 and 2
frame_time(i, fps) == (i * 1000) \div fps

\* the frame count and rate are read, the duration is tested and the output
\* file is opened
VideoOpen ==
    /\ video_pc = "open"
    /\ video_pc' = IF video_fps > 0 /\ video_frame_count > 0 THEN "loop" ELSE "ValueError"
    /\ UNCHANGED <<video_frame_count, video_fps, video_display, video_i, video_idx,
                   video_current_text, video_start_time, video_end_time, video_srt_file>>
    /\ UNCHANGED notVideo

\* one iteration of the for loop over the frames; with the display on, the
\* q key may end the loop after any frame
VideoFrame ==
    /\ video_pc = "loop"
    /\ video_i < video_frame_count
    /\ \E text \in OcrTexts :
          IF text # <<>>
          THEN IF text = video_current_text
               THEN /\ video_end_time' = frame_time(video_i + 1, video_fps)
                    /\ UNCHANGED <<video_idx, video_srt_file, video_current_text,
                                   video_start_time>>
               ELSE /\ IF video_current_text # <<>>
                       THEN /\ video_idx' = video_idx + 1
                            /\ video_srt_file' =
                                   Append(video_srt_file,
                                       video_get_srt_entry(video_idx + 1,
                                           format_time(video_start_time),
                                           format_time(video_end_time),
                                           video_current_text))
                       ELSE UNCHANGED <<video_idx, video_srt_file>>
                    /\ video_current_text' = text
                    /\ video_start_time' = frame_time(video_i, video_fps)
                    /\ video_end_time' = frame_time(video_i + 1, video_fps)
          ELSE UNCHANGED <<video_idx, video_srt_file, video_current_text,
                           video_start_time, video_end_time>>
    /\ video_i' = video_i + 1
    /\ \E key_q \in BOOLEAN :
          /\ key_q => video_display
          /\ video_pc' = IF key_q THEN "break" ELSE "loop"
    /\ UNCHANGED <<video_frame_count, video_fps, video_display>>
    /\ UNCHANGED notVideo

\* "Write the last subtitle entry", after the loop
VideoLast ==
    /\ \/ video_pc = "loop" /\ video_i >= video_frame_count
       \/ video_pc = "break"
    /\ video_srt_file' =
           IF video_current_text # <<>>
           THEN Append(video_srt_file,
                    video_get_srt_entry(video_idx,
                        format_time(video_start_time),
                        format_time(video_end_time),
                        video_current_text))
           ELSE video_srt_file
    /\ video_pc' = "done"
    /\ UNCHANGED <<video_frame_count, video_fps, video_display, video_i, video_idx,
                   video_current_text, video_start_time, video_end_time>>
    /\ UNCHANGED notVideo

VideoInit ==
    /\ video_frame_count \in 0..MaxFrames
    /\ video_fps \in FrameRates
    /\ video_display \in BOOLEAN
    /\ video_i = 0
    /\ video_idx = 0
    /\ video_current_text = <<>>
    /\ video_start_time = 0
    /\ video_end_time = 0
    /\ video_srt_file = <<>>
    /\ video_pc = "open"

VideoIdle ==
    /\ video_frame_count = 0
    /\ video_fps = 1
    /\ video_display = FALSE
    /\ video_i = 0
    /\ video_idx = 0
    /\ video_current_text = <<>>
    /\ video_start_time = 0
    /\ video_end_time = 0
    /\ video_srt_file = <<>>
    /\ video_pc = "idle"

\* the components a specification does not run
RestIdle == SimIdle /\ MainIdle /\ VideoIdle

-----------------------------------------------------------------------------
(* The specifications, one per component, and Spec, which runs any of them *)

DetectInit ==
    ProcInit /\ LoadIdle /\ csv_file = NoFile /\ ApplyIdle /\ GuessIdle /\ GarbageIdle
    /\ RestIdle

DetectNext == ProcessSubtitle \/ ProcessReturn

SpecDetect == DetectInit /\ [][DetectNext]_vars

ReconstructInit ==
    ApplyInit /\ ProcIdle /\ LoadIdle /\ csv_file = NoFile /\ GuessIdle /\ GarbageIdle
    /\ RestIdle

ReconstructNext == ApplyRow \/ ApplyFinish

SpecReconstruct == ReconstructInit /\ [][ReconstructNext]_vars

ParseInit ==
    LoadInit /\ ProcIdle /\ csv_file = NoFile /\ ApplyIdle /\ GuessIdle /\ GarbageIdle
    /\ RestIdle

ParseNext == LoadStep \/ LoadReturn

SpecParse == ParseInit /\ [][ParseNext]_vars

RoundTripInit ==
    /\ lines \in WellFormedTracks
    /\ LoadStart
    /\ ProcIdle /\ csv_file = NoFile /\ ApplyIdle /\ GuessIdle /\ GarbageIdle
    /\ RestIdle

RoundTripNext == LoadStep \/ LoadReturn \/ SaveParsed \/ ApplyRead \/ ApplyRow \/ ApplyFinish

SpecRoundTrip == RoundTripInit /\ [][RoundTripNext]_vars

ConsensusInit ==
    GuessInit /\ ProcIdle /\ LoadIdle /\ csv_file = NoFile /\ ApplyIdle /\ GarbageIdle
    /\ RestIdle

ConsensusNext == GuessCall

SpecConsensus == ConsensusInit /\ [][ConsensusNext]_vars

ClassifyInit ==
    GarbageInit /\ ProcIdle /\ LoadIdle /\ csv_file = NoFile /\ ApplyIdle /\ GuessIdle
    /\ RestIdle

ClassifyNext == GarbageCall

SpecClassify == ClassifyInit /\ [][ClassifyNext]_vars

ScorerInit ==
    /\ SimInit
    /\ ProcIdle /\ LoadIdle /\ csv_file = NoFile /\ ApplyIdle /\ GuessIdle /\ GarbageIdle
    /\ MainIdle /\ VideoIdle

ScorerNext == SimilarCall

SpecScorer == ScorerInit /\ [][ScorerNext]_vars

BlocksInit ==
    /\ lines \in OpenTracks /\ LoadStart
    /\ ProcIdle /\ csv_file = NoFile /\ ApplyIdle /\ GuessIdle /\ GarbageIdle
    /\ RestIdle

BlocksNext == LoadStep \/ LoadReturn

SpecBlocks == BlocksInit /\ [][BlocksNext]_vars

PipelineInit ==
    /\ MainInit
    /\ ProcIdle /\ LoadIdle /\ ApplyIdle /\ GuessIdle /\ GarbageIdle
    /\ SimIdle /\ VideoIdle

PipelineNext ==
    \/ MainBegin
    \/ LoadStep
    \/ LoadReturn
    \/ MainProcess
    \/ ProcessSubtitle
    \/ ProcessReturn
    \/ MainSave
    \/ MainChoice
    \/ EditActions
    \/ MainSavePrompt
    \/ MainDecide
    \/ ApplyRow
    \/ ApplyFinish
    \/ MainExit

SpecPipeline == PipelineInit /\ [][PipelineNext]_vars

ExtractInit ==
    /\ VideoInit
    /\ ProcIdle /\ LoadIdle /\ csv_file = NoFile /\ ApplyIdle /\ GuessIdle /\ GarbageIdle
    /\ SimIdle /\ MainIdle

ExtractNext == VideoOpen \/ VideoFrame \/ VideoLast

SpecExtract == ExtractInit /\ [][ExtractNext]_vars

Init ==
    \/ DetectInit
    \/ ReconstructInit
    \/ ParseInit
    \/ RoundTripInit
    \/ ConsensusInit
    \/ ClassifyInit
    \/ ScorerInit
    \/ BlocksInit
    \/ PipelineInit
    \/ ExtractInit

Next ==
    \/ ProcessSubtitle
    \/ ProcessReturn
    \/ LoadStep
    \/ LoadReturn
    \/ SaveParsed
    \/ ApplyRead
    \/ ApplyRow
    \/ ApplyFinish
    \/ GuessCall
    \/ GarbageCall
    \/ SimilarCall
    \/ MainBegin
    \/ MainProcess
    \/ MainSave
    \/ MainChoice
    \/ EditActions
    \/ MainSavePrompt
    \/ MainDecide
    \/ MainExit
    \/ VideoOpen
    \/ VideoFrame
    \/ VideoLast

Spec == Init /\ [][Next]_vars

-----------------------------------------------------------------------------
(* The run detector's claims.  The texts of the records the loop has       *)
(* passed are the cleaned ones.                                            *)

TextOf(i) == subtitle_action_list[i].text

Garbage(i) == is_garbage(TextOf(i), delete_list)

\* the nearest non-garbage record before i, or 0
PrevNG(i) ==
    LET before == {j \in 1..(i - 1) : ~Garbage(j)}
    IN  IF before = {} THEN 0 ELSE CHOOSE j \in before : \A h \in before : h <= j

\* the nearest non-garbage record after i, or 0
NextNG(i) ==
    LET after == {j \in (i + 1)..Len(subtitle_action_list) : ~Garbage(j)}
    IN  IF after = {} THEN 0 ELSE CHOOSE j \in after : \A h \in after : j <= h

\* record i is similar to the non-garbage record before it
SimilarToPrev(i) ==
    PrevNG(i) # 0 /\ is_similar(TextOf(PrevNG(i)), TextOf(i), similarity)

\* the first member of the run that record i belongs to
RECURSIVE RunFirst(_)
RunFirst(i) == IF SimilarToPrev(i) THEN RunFirst(PrevNG(i)) ELSE i

\* the records that are the second member of a run: one per run of >= 2
RunSeconds ==
    {i \in DOMAIN subtitle_action_list :
        ~Garbage(i) /\ SimilarToPrev(i) /\ ~SimilarToPrev(PrevNG(i))}

MergeTos == {k \in DOMAIN ret : ret[k].ref = 0}

\* C1: when process_subtitles returns, no run is left open and every run of
\* two or more similar non-garbage records has exactly one merge-to record
\* in the returned list, a run that ends with the input included.
C1_EveryRunClosed ==
    proc_pc = "done" =>
        /\ ~merging
        /\ Cardinality(MergeTos) = Cardinality(RunSeconds)

\* the input record that is the last run member before position k of ret
LastMemberBefore(k) ==
    LET members == {ret[j].ref : j \in {h \in 1..(k - 1) : ret[h].ref > 0}}
        kept == {i \in members : ~Garbage(i)}
    IN  CHOOSE i \in kept : \A h \in kept : h <= i

\* C2: every merge-to record spans from the start time of its run's first
\* member to the end time of the run's final member (prev), not to the end
\* time of the dissimilar record that closed the run.
C2_ConsensusSpan ==
    \A k \in MergeTos :
        LET last == LastMemberBefore(k)
        IN  /\ ret[k].start_time = subtitle_action_list[RunFirst(last)].start_time
            /\ ret[k].end_time = subtitle_action_list[last].end_time

\* C3: when process_subtitles returns, a garbage record is tagged delete; a
\* non-garbage record is tagged merge exactly if it is similar to the
\* nearest non-garbage record before it, or the nearest non-garbage record
\* after it is similar to it; any other record is tagged do nothing.
C3_Tags ==
    proc_pc = "done" =>
        \A i \in DOMAIN subtitle_action_list :
            subtitle_action_list[i].action =
                IF Garbage(i) THEN DELETE
                ELSE IF SimilarToPrev(i) \/ (NextNG(i) # 0 /\ SimilarToPrev(NextNG(i)))
                     THEN MERGE
                ELSE DO_NOTHING

\* a returned list with a deleted record between two merged ones, then a
\* record left alone
C3_Witness ==
    /\ proc_pc = "done"
    /\ \E i \in DOMAIN subtitle_action_list :
          /\ i + 3 <= Len(subtitle_action_list)
          /\ subtitle_action_list[i].action = MERGE
          /\ subtitle_action_list[i + 1].action = DELETE
          /\ subtitle_action_list[i + 2].action = MERGE
          /\ subtitle_action_list[i + 3].action = DO_NOTHING

-----------------------------------------------------------------------------
(* The reconstructor's claims *)

Kept(row) == row.action # DELETE /\ row.action # MERGE

KeptRows == SelectSeq(actions, Kept)

\* C4: the entries written are exactly the rows that are neither delete nor
\* merge, one entry per such row, in row order, numbered from 1 and carrying
\* the row's times and text; their number is the number of rows less the
\* delete and merge rows.
C4_OneEntryPerKeptRow ==
    apply_pc = "done" =>
        /\ Len(srt_content) = Len(KeptRows)
        /\ \A k \in DOMAIN srt_content :
              srt_content[k] = get_srt_entry(k, KeptRows[k].start_time,
                                   KeptRows[k].end_time, KeptRows[k].text)

\* C5: a ledger with no rows, or with delete rows only, gives an output
\* track with no entries.
C5_EmptyLedgerEmptyTrack ==
    (apply_pc = "done" /\ \A i \in DOMAIN actions : actions[i].action = DELETE)
        => srt_content = <<>>

KnownActions == {DELETE, MERGE, MERGE_TO, DO_NOTHING}

\* the ledger with every action outside the known four written as do nothing
AsDoNothing(rows) ==
    [i \in DOMAIN rows |->
        IF rows[i].action \in KnownActions THEN rows[i]
        ELSE [rows[i] EXCEPT !.action = DO_NOTHING]]

\* the loop of apply_actions run over rows, from st
RECURSIVE apply_rows(_, _)
apply_rows(st, rows) ==
    IF rows = <<>> THEN st ELSE apply_rows(apply_row(st, Head(rows)), Tail(rows))

\* C6: a row whose action is outside {delete, merge, merge to, do nothing},
\* the empty value included, is handled as a do nothing row: the
\* reconstructor does not raise, and where it stands, and when it ends,
\* what it has written and what is pending are what the same ledger with
\* those rows marked do nothing gives.
C6_UnknownActionAsDoNothing ==
    /\ apply_pc \in {"idle", "loop", "done"}
    /\ apply_pc = "loop" =>
          Pending(srt_content, current_subtitle) =
              apply_rows(Pending(<<>>, EmptySubtitle),
                  SubSeq(AsDoNothing(actions), 1, apply_i - 1))
    /\ apply_pc = "done" =>
          srt_content =
              apply_last(apply_rows(Pending(<<>>, EmptySubtitle), AsDoNothing(actions)))

\* the output is written for a ledger in which a row with an unknown action
\* and a row with an empty action each became an entry
C6_Witness ==
    /\ apply_pc = "done"
    /\ \E i, j \in DOMAIN actions :
          /\ i < j
          /\ actions[i].action = UnknownAction
          /\ actions[j].action = EmptyAction
          /\ actions[i].start_time # <<>>
          /\ \E k \in DOMAIN srt_content :
                srt_content[k] =
                    get_srt_entry(k, actions[i].start_time, actions[i].end_time,
                        actions[i].text)
          /\ srt_content[Len(srt_content)] =
                get_srt_entry(Len(srt_content), actions[j].start_time,
                    actions[j].end_time, actions[j].text)

-----------------------------------------------------------------------------
(* The round trip, the consensus selector, the parser and the classifier   *)

\* C7: a well-formed track parsed by load_srt, saved by save_actions with
\* every action 'do nothing' and replayed by apply_actions gives as many
\* entries as records were parsed, the k-th with the k-th record's start
\* time, end time and text, numbered k.
C7_RoundTrip ==
    (load_pc = "done" /\ apply_pc = "done") =>
        /\ Len(srt_content) = Len(subtitles)
        /\ \A k \in DOMAIN srt_content :
              srt_content[k] =
                  get_srt_entry(k, subtitles[k].start_time, subtitles[k].end_time,
                      subtitles[k].text)

\* the sum of the scores of candidate i against the others
ScoreSum(i) == similarity_sum(guess_sentences, guess_ratio, i, 1)

\* the first candidate whose mean score is maximal
FirstBest ==
    CHOOSE i \in DOMAIN guess_sentences :
        /\ \A j \in DOMAIN guess_sentences : ScoreSum(j) <= ScoreSum(i)
        /\ \A j \in 1..(i - 1) : ScoreSum(j) < ScoreSum(i)

\* C8: on a list of two or more texts, with any symmetric pairwise score,
\* guess_sentence returns the first candidate whose mean score against the
\* others is maximal: an element of the list, never None, also when every
\* pairwise score is 0.
C8_ReturnsFirstBest ==
    (guess_pc = "done" /\ Len(guess_sentences) >= 2) =>
        /\ guess_result # None
        /\ guess_result = guess_sentences[FirstBest]

\* C9: load_srt raises on no sequence of lines: a block without the arrow
\* and an input that ends after an index line are skipped.
C9_ParserNeverRaises == load_pc \in {"idle", "loop", "done"}

\* some deny pattern matches the text
DenyMatches(text, dl) == \E k \in DOMAIN dl : \E off \in 0..Len(text) : MatchesAt(dl[k], text, off)

AllDigits(text) == text # <<>> /\ \A k \in DOMAIN text : text[k] \in DigitChars

\* C10: is_garbage is true exactly if some deny pattern matches the text, or
\* the text has fewer than 3 characters, or is all digits, or trimmed is
\* "1"; so "1" is garbage under every deny list; the call changes neither
\* the text nor the deny list.
C10_IsGarbage ==
    /\ [](garbage_pc = "done" =>
            (garbage_result <=>
                \/ DenyMatches(garbage_text, garbage_delete_list)
                \/ Len(garbage_text) < 3
                \/ AllDigits(garbage_text)
                \/ strip(garbage_text) = <<"1">>))
    /\ [](garbage_pc = "done" /\ garbage_text = <<"1">> => garbage_result)
    /\ [][garbage_text' = garbage_text /\ garbage_delete_list' = garbage_delete_list]_vars

\* is_garbage has answered true for the text "1" under the empty deny list
C10_Witness ==
    /\ garbage_pc = "done"
    /\ garbage_text = <<"1">>
    /\ garbage_delete_list = <<>>
    /\ garbage_result = TRUE

-----------------------------------------------------------------------------
(* The similarity scorer *)

\* two floats kept as <<numerator, denominator>> are the same number
SameFloat(x, y) == x[1] * y[2] = y[1] * x[2]

\* C11: the normalised distance of (a, b) is that of (b, a), and is_similar
\* answers the same for (a, b) and (b, a) under every cutoff.
C11_Symmetric ==
    sim_pc = "done" =>
        /\ SameFloat(sim_distance, normalized_levenshtein_distance(sim_str2, sim_str1))
        /\ \A c \in SimCutoffs :
              is_similar(sim_str1, sim_str2, c) = is_similar(sim_str2, sim_str1, c)
        /\ sim_similar = is_similar(sim_str2, sim_str1, sim_cutoff)

\* the scorer has answered for two strings of different lengths, at a
\* distance at which the cutoff matters
C11_Witness ==
    /\ sim_pc = "done"
    /\ Len(sim_str1) < Len(sim_str2)
    /\ sim_str1 # <<>>
    /\ sim_distance[1] > 0
    /\ sim_similar

-----------------------------------------------------------------------------
(* The numbering of the reconstructed track *)

\* the index line of a track entry: what stands before its first line end
index_line(entry) == split(entry, <<"\n">>)[1]

\* C12: the index lines of the entries the reconstructor emits are 1, 2, ...,
\* N in emission order, N the number of entries emitted: none is skipped,
\* repeated or zero.
C12_IndicesDense ==
    \A k \in 1..Len(srt_content) : index_line(srt_content[k]) = str(k)

\* a track of three entries has been written, the last by the final append
C12_Witness ==
    /\ apply_pc = "done"
    /\ Len(srt_content) = 3
    /\ index_line(srt_content[3]) = <<"3">>

-----------------------------------------------------------------------------
(* The run detector, step by step *)

\* the loop is at a record whose cleaned text is garbage
AtGarbage ==
    /\ proc_pc = "loop"
    /\ proc_i <= Len(subtitle_action_list)
    /\ is_garbage(clean_text(TextOf(proc_i)), delete_list)

\* the records the loop has been through
Processed == 1..(proc_i - 1)

\* the last non-garbage record the loop has been through, or 0
LastNG ==
    LET before == {j \in Processed : ~Garbage(j)}
    IN  IF before = {} THEN 0 ELSE CHOOSE j \in before : \A h \in before : h <= j

\* C13: a garbage record is tagged delete and changes neither prev_subtitle
\* nor merging nor mergins_start_time nor merging_list; so prev_subtitle is
\* always the last non-garbage record met, whatever garbage lies between,
\* and merging_list never holds the text of a garbage record.
C13_GarbageFrame ==
    /\ [][ (AtGarbage /\ proc_i' = proc_i + 1) =>
              /\ subtitle_action_list'[proc_i].action = DELETE
              /\ UNCHANGED <<prev_subtitle, merging, merging_list, mergins_start_time>>
         ]_vars
    /\ [](prev_subtitle = LastNG)
    /\ [](\A k \in DOMAIN merging_list : ~is_garbage(merging_list[k], delete_list))

\* a garbage record has been passed inside a merging sequence, between the
\* two records compared next
C13_Witness ==
    /\ proc_pc = "loop"
    /\ merging
    /\ Len(merging_list) = 3
    /\ proc_i - 1 \in DOMAIN subtitle_action_list
    /\ prev_subtitle = proc_i - 1
    /\ prev_subtitle > 3
    /\ \E j \in 2..(prev_subtitle - 1) : subtitle_action_list[j].action = DELETE

-----------------------------------------------------------------------------
(* The place of the merge-to records in the returned list *)

\* the position of input record i in ret
PositionOf(i) == CHOOSE p \in DOMAIN ret : ret[p].ref = i

\* the members of the run that ends with record last
RunMembers(last) ==
    {i \in 1..last : ~Garbage(i) /\ RunFirst(i) = RunFirst(last)}

\* the merge-to record at position k stands immediately before the
\* dissimilar record that closed its run and after every member of the run
PlacedBeforeCloser(k) ==
    /\ k + 1 \in DOMAIN ret
    /\ ret[k + 1].ref > 0
    /\ LET r == ret[k + 1].ref
       IN  /\ ~Garbage(r)
           /\ ~SimilarToPrev(r)
           /\ PrevNG(r) # 0
           /\ SimilarToPrev(PrevNG(r))
           /\ \A i \in RunMembers(PrevNG(r)) : PositionOf(i) < k

\* the record that closed the run of the merge-to record at position k
Closer(k) == ret[k + 1].ref

\* record r opens the next run: the next non-garbage record is similar to it
OpensRun(r) == NextNG(r) # 0 /\ SimilarToPrev(NextNG(r))

\* C14 as stated: in the returned list every merge-to record sits immediately
\* before the dissimilar record r that closed its run and after every member
\* of the run, and r is tagged do nothing.
C14_CloserDoNothing ==
    proc_pc = "done" =>
        \A k \in MergeTos :
            /\ PlacedBeforeCloser(k)
            /\ subtitle_action_list[Closer(k)].action = DO_NOTHING

\* C14, amended: in the returned list every merge-to record sits immediately
\* before the dissimilar record r that closed its run and after every member
\* of the run; r is tagged do nothing unless the next non-garbage record is
\* similar to r, in which case r is tagged merge as the first member of the
\* next run.
C14_PlacedBeforeCloser ==
    proc_pc = "done" =>
        \A k \in MergeTos :
            /\ PlacedBeforeCloser(k)
            /\ subtitle_action_list[Closer(k)].action =
                   IF OpensRun(Closer(k)) THEN MERGE ELSE DO_NOTHING

\* a returned list with a merge-to record whose closing record opens the
\* next run and is tagged merge
C14_Witness ==
    /\ proc_pc = "done"
    /\ \E k \in MergeTos :
          /\ PlacedBeforeCloser(k)
          /\ OpensRun(Closer(k))
          /\ subtitle_action_list[Closer(k)].action = MERGE

-----------------------------------------------------------------------------
(* The run buffer *)

\* the texts of the run that ends with record i, first member first
RECURSIVE RunTexts(_)
RunTexts(i) ==
    IF SimilarToPrev(i) THEN Append(RunTexts(PrevNG(i)), TextOf(i)) ELSE <<TextOf(i)>>

\* this step builds a merge-to record
ClosesRun == Len(ret') = Len(ret) + 2

\* C15: a merge-to record is built only for a run of at least 2 members:
\* whenever guess_sentence is called, merging_list holds the texts of the
\* run's members in order, at least 2 of them; merging_list is empty whenever
\* no run is open; and no merge-to record stands for a lone record.
C15_RunBuffer ==
    /\ [](~merging => merging_list = <<>>)
    /\ [](merging =>
             /\ prev_subtitle # 0
             /\ merging_list = RunTexts(prev_subtitle)
             /\ Len(merging_list) >= 2)
    /\ [][ ClosesRun =>
              /\ merging
              /\ Len(merging_list) >= 2
              /\ merging_list = RunTexts(prev_subtitle)
              /\ ret'[Len(ret) + 1].ref = 0
              /\ ret'[Len(ret) + 1].text = guess_sentence(merging_list)
         ]_vars
    /\ [](\A k \in MergeTos : Cardinality(RunMembers(LastMemberBefore(k))) >= 2)

\* a run of two members, a deleted record inside or before it, has just been
\* closed by the record the loop went through last
C15_Witness ==
    /\ ~merging
    /\ merging_list = <<>>
    /\ \E k \in MergeTos :
          /\ k + 1 = Len(ret)
          /\ Closer(k) = prev_subtitle
          /\ Cardinality(RunMembers(LastMemberBefore(k))) = 2
          /\ \E j \in 1..LastMemberBefore(k) : subtitle_action_list[j].action = DELETE

-----------------------------------------------------------------------------
(* The returned list as a whole *)

IsInputRecord(e) == e.ref > 0

\* the input records of ret, in the order ret holds them
InputRecords == SelectSeq(ret, IsInputRecord)

\* the records that closed a run: dissimilar to a predecessor that is a
\* member of a run of two or more
Closers ==
    {i \in Processed :
        /\ ~Garbage(i)
        /\ ~SimilarToPrev(i)
        /\ PrevNG(i) # 0
        /\ SimilarToPrev(PrevNG(i))}

\* C19: the list process_subtitles returns holds every input record exactly
\* once, in the input's order and with its start and end time unchanged,
\* interleaved only with merge-to records; its length is the input's length
\* plus the number of closed runs.
C19_ReturnedFrame ==
    /\ Len(InputRecords) = proc_i - 1
    /\ \A j \in DOMAIN InputRecords : InputRecords[j].ref = j
    /\ \A k \in MergeTos : ret[k].action = MERGE_TO
    /\ \A i \in DOMAIN subtitle_action_list :
          /\ subtitle_action_list[i].start_time = str(2 * i - 1)
          /\ subtitle_action_list[i].end_time = str(2 * i)
    /\ Len(ret) = (proc_i - 1) + Cardinality(Closers)
    /\ proc_pc = "done" =>
          /\ proc_i - 1 = Len(subtitle_action_list)
          /\ Len(Returned) = Len(subtitle_action_list) + Cardinality(Closers)

\* a list of four records has been returned with a merge-to record and a
\* deleted record in it
C19_Witness ==
    /\ proc_pc = "done"
    /\ Len(subtitle_action_list) = 4
    /\ Len(Returned) = 5
    /\ \E k \in DOMAIN Returned : Returned[k].action = MERGE_TO
    /\ \E k \in DOMAIN Returned : Returned[k].action = DELETE

-----------------------------------------------------------------------------
(* The end of a caption block *)

\* the positions of the index lines of the track, in order
IndexLines == SelectSeq([p \in DOMAIN lines |-> p], LAMBDA p : isdigit(lines[p]))

\* the lines from position p up to a blank line, an index line or the end
RECURSIVE own_text(_)
own_text(p) ==
    IF p <= Len(lines) /\ lines[p] # <<>> /\ ~isdigit(lines[p])
    THEN <<lines[p]>> \o own_text(p + 1)
    ELSE <<>>

\* C16: the text of a block ends at a blank line, at the end of the input or
\* at the next index line: from a track whose blocks are not all followed by
\* a blank line, load_srt returns one record per block, the k-th with the
\* text lines of block k alone.
C16_BlockEndsAtIndexLine ==
    load_pc = "done" =>
        /\ Len(subtitles) = Len(IndexLines)
        /\ \A k \in DOMAIN subtitles :
              /\ k \in DOMAIN IndexLines
              /\ subtitles[k].text = join(<<" ">>, own_text(IndexLines[k] + 2))

-----------------------------------------------------------------------------
(* The mean score of the consensus selector *)

\* C17: guess_sentence divides by zero on no list of texts, a list of one
\* text and a list of two texts included.
C17_NeverDividesByZero == guess_pc # "ZeroDivisionError"

-----------------------------------------------------------------------------
(* The order of the files main writes *)

\* main without -a: load, detect, save the actions file, ask, apply
InPipeline == main_pc # "idle" /\ ~args.apply_actions_csv

\* apply_actions has been entered: it alone writes the output track, as
\* its last step
ApplyEntered == apply_pc # "idle"

OutputWritten == apply_pc = "done"

\* the run is abandoned: --dont-apply was given, or the user answered 'n'
\* after the editor
Abandoned == args.dont_apply \/ save = <<"n">>

\* C18: in the pipeline the output track is written only after the actions
\* file has been written and the editor, if run, has returned; if the run
\* is abandoned (the user answers 'n' after the inspection, or --dont-apply
\* is given) the output track is never written and the actions file, once
\* written, stays as it is.
C18_OutputAfterLedger ==
    /\ [](InPipeline /\ ApplyEntered =>
             /\ csv_file # NoFile
             /\ main_pc \in {"apply", "exit"})
    /\ [](InPipeline /\ Abandoned => ~ApplyEntered /\ srt_content = <<>>)
    /\ [](InPipeline /\ Abandoned /\ main_pc = "exit" => csv_file # NoFile)
    /\ [][ (InPipeline /\ main_pc \in {"save", "decide", "apply", "exit", "CalledProcessError"})
              => csv_file' = csv_file ]_vars
    /\ [][ (InPipeline /\ csv_file # NoFile /\ main_pc # "editor") => csv_file' = csv_file ]_vars
    /\ [][ (InPipeline /\ ~ApplyEntered /\ ApplyEntered') => main_pc = "decide" ]_vars

\* the user has inspected the actions file, changed it and answered 'n':
\* main has ended with the changed file in place and no output track
C18_Witness ==
    /\ InPipeline
    /\ main_pc = "exit"
    /\ ~args.dont_apply
    /\ choice = <<"i">>
    /\ save = <<"n">>
    /\ csv_file # NoFile
    /\ csv_file # save_actions(Returned)
    /\ ~OutputWritten

-----------------------------------------------------------------------------
(* The numbering of the extracted track *)

\* C20: the entries process_video writes carry the indices 1, 2, ..., N in
\* the order of writing, the entry written after the last frame included:
\* no index is 0 and none is used twice.
C20_ExtractIndicesDense ==
    \A k \in DOMAIN video_srt_file : index_line(video_srt_file[k]) = str(k)

====
